---- MODULE Spec2Model ----
(***************************************************************************)
(* A model of Tools/c-analyzer/c_analyzer/__main__.py: the section         *)
(* builder (TABLE_SECTIONS, build_section, _render_table), the report      *)
(* formats (fmt_raw, fmt_brief, fmt_summary, fmt_full), the failure        *)
(* handlers (_get_check_handlers) and the commands (cmd_check,             *)
(* cmd_analyze, cmd_data, main).                                           *)
(*                                                                         *)
(* Python strings are TLA+ strings.  A generator's output is the sequence  *)
(* of the lines it yields; a line is [text |-> s] for a str the module     *)
(* builds itself and [render |-> fmt, item |-> v] for a line that the      *)
(* entity's own render() produces (c_analyzer.info, outside this file).    *)
(***************************************************************************)
EXTENDS Integers, Sequences, FiniteSets, TLC

VARIABLES
    bs,     \* the frame of one build_section() call and of its render()
    fs,     \* the frame of one fmt_summary() generator
    fo,     \* the last call of fmt_raw / fmt_brief / fmt_full and its output
    run     \* the frame of one command: main, cmd_check, cmd_analyze, cmd_data

vars == <<bs, fs, fo, run>>

-----------------------------------------------------------------------------
(* Bounds of the model.                                                    *)

\* the longest entity collection handed to build_section
MaxSectionItems == 2
\* the longest entity collection handed to a format
MaxItems == 3
\* the longest list of checks handed to cmd_check
MaxChecks == 2
\* the most failures the check of the exit-status specification yields
MaxExitFailures == 257
\* the most file names handed to a command
MaxFiles == 1

-----------------------------------------------------------------------------
(* Strings and their order.  Python compares str lexicographically by code *)
(* point; StrOrder lists every string that occurs in a sort key of the     *)
(* model in that order.                                                    *)

StrOrder ==
    << "", "/src/geom.c", "/src/geom.h", "add", "buf", "count", "enum",
       "function", "geom.c", "geom.h", "point", "statement", "struct",
       "typedef", "union", "variable" >>

StrRank(s) == CHOOSE i \in 1..Len(StrOrder) : StrOrder[i] = s

StrLess(a, b) == StrRank(a) < StrRank(b)

\* Python's tuple < tuple, on tuples of str of the same length
RECURSIVE TupleLess(_, _)
TupleLess(a, b) ==
    IF a = <<>> \/ b = <<>> THEN a = <<>> /\ b # <<>>
    ELSE IF Head(a) = Head(b) THEN TupleLess(Tail(a), Tail(b))
    ELSE StrLess(Head(a), Head(b))

Front(s) == SubSeq(s, 1, Len(s) - 1)

Last(s) == s[Len(s)]

RECURSIVE Concat(_)
Concat(ss) == IF ss = <<>> THEN <<>> ELSE Head(ss) \o Concat(Tail(ss))

\* sep.join(cells)
RECURSIVE Join(_, _)
Join(cells, sep) ==
    IF cells = <<>> THEN ""
    ELSE IF Len(cells) = 1 THEN cells[1]
    ELSE cells[1] \o sep \o Join(Tail(cells), sep)

\* the builtin sorted(items, key=...): stable, ascending; keys[i] is the key
\* of items[i]
RECURSIVE InsertStable(_, _)
InsertStable(acc, p) ==
    IF acc = <<>> THEN <<p>>
    ELSE IF TupleLess(p.key, Last(acc).key)
         THEN Append(InsertStable(Front(acc), p), Last(acc))
         ELSE Append(acc, p)

RECURSIVE SortPairs(_)
SortPairs(ps) ==
    IF ps = <<>> THEN <<>> ELSE InsertStable(SortPairs(Front(ps)), Last(ps))

Sorted(items, keys) ==
    LET ps == [i \in 1..Len(items) |-> [key |-> keys[i], item |-> items[i]]]
        s  == SortPairs(ps)
    IN  [i \in 1..Len(s) |-> s[i].item]

Reverse(s) == [i \in 1..Len(s) |-> s[Len(s) + 1 - i]]

\* [v for v in items if v in keep], in order
RECURSIVE SelectKind(_, _)
SelectKind(items, kinds) ==
    IF items = <<>> THEN <<>>
    ELSE IF Head(items).kind \in kinds
         THEN <<Head(items)>> \o SelectKind(Tail(items), kinds)
         ELSE SelectKind(Tail(items), kinds)

TextLine(s) == [text |-> s]

-----------------------------------------------------------------------------
(* c_parser.info.KIND and the entities.                                    *)

KIND_TYPEDEF == "KIND.TYPEDEF"
KIND_STRUCT == "KIND.STRUCT"
KIND_UNION == "KIND.UNION"
KIND_ENUM == "KIND.ENUM"
KIND_FUNCTION == "KIND.FUNCTION"
KIND_VARIABLE == "KIND.VARIABLE"
KIND_STATEMENT == "KIND.STATEMENT"

KINDS ==
    << KIND_TYPEDEF, KIND_STRUCT, KIND_UNION, KIND_ENUM,
       KIND_FUNCTION, KIND_VARIABLE, KIND_STATEMENT >>

KindSet == {KINDS[i] : i \in 1..Len(KINDS)}

\* kind.value
KindValue(kind) ==
    CASE kind = KIND_TYPEDEF -> "typedef"
      [] kind = KIND_STRUCT -> "struct"
      [] kind = KIND_UNION -> "union"
      [] kind = KIND_ENUM -> "enum"
      [] kind = KIND_FUNCTION -> "function"
      [] kind = KIND_VARIABLE -> "variable"
      [] kind = KIND_STATEMENT -> "statement"

\* c_parser.info.is_type_decl
is_type_decl(kind) == kind \in {KIND_TYPEDEF, KIND_STRUCT, KIND_UNION, KIND_ENUM}

Entity(kind, name, filename, parent, known) ==
    [kind |-> kind, name |-> name, filename |-> filename, parent |-> parent,
     is_known |-> known]

\* The analyzer's entities the model draws collections from: every kind, and
\* pairs that tie under a section's sort key ("" is an absent file or parent).
EntityPool ==
    << Entity(KIND_TYPEDEF, "point", "/src/geom.h", "", TRUE),
       Entity(KIND_TYPEDEF, "point", "/src/geom.h", "", FALSE),
       Entity(KIND_STRUCT, "point", "/src/geom.h", "", TRUE),
       Entity(KIND_UNION, "buf", "", "", TRUE),
       Entity(KIND_ENUM, "count", "/src/geom.c", "", TRUE),
       Entity(KIND_FUNCTION, "add", "/src/geom.c", "", TRUE),
       Entity(KIND_FUNCTION, "add", "/src/geom.c", "", FALSE),
       Entity(KIND_VARIABLE, "count", "/src/geom.c", "add", TRUE),
       Entity(KIND_VARIABLE, "buf", "/src/geom.c", "", TRUE),
       Entity(KIND_STATEMENT, "", "/src/geom.c", "add", TRUE) >>

\* the collections of at most n distinct entities of the pool, in every order
Collections(n) ==
    LET idx == UNION {[1..k -> 1..Len(EntityPool)] : k \in 0..n}
        inj == {f \in idx : \A i, j \in DOMAIN f : f[i] = f[j] => i = j}
    IN  {[i \in DOMAIN f |-> EntityPool[f[i]]] : f \in inj}

\* the number of places of s that hold x
Count(s, x) == Cardinality({i \in DOMAIN s : s[i] = x})

-----------------------------------------------------------------------------
(* table helpers                                                           *)

is_function(kind) == kind = KIND_FUNCTION

\* (lambda kind: kind in (KIND.VARIABLE, KIND.STATEMENT))
is_variable_or_statement(kind) == kind \in {KIND_VARIABLE, KIND_STATEMENT}

is_variable(kind) == kind = KIND_VARIABLE

is_statement(kind) == kind = KIND_STATEMENT

\* the sort key lambdas of TABLE_SECTIONS, by the section that holds them
SortKey(section, v) ==
    CASE section = "types" -> <<KindValue(v.kind), v.filename, v.name>>
      [] section = "functions" -> <<v.filename, v.name>>
      [] section = "variables" -> <<v.filename, v.parent, v.name>>
      [] section = "statements" -> <<v.filename, v.parent, v.name>>

\* a (columns, match_kind, sortkey) tuple; match_kind is the set of the kinds
\* the predicate accepts
Triple(columns, match_kind, section) ==
    [tag |-> "tuple", columns |-> columns, match_kind |-> match_kind,
     sortkey |-> section]

Alias(to) == [tag |-> "alias", to |-> to]

TypesTriple ==
    Triple(<<"kind", "name", "data", "file">>,
           {k \in KindSet : is_type_decl(k)}, "types")

FunctionsTriple ==
    Triple(<<"name", "data", "file">>,
           {k \in KindSet : is_function(k)}, "functions")

VariablesTriple ==
    Triple(<<"name", "parent", "data", "file">>,
           {k \in KindSet : is_variable(k)}, "variables")

StatementsTriple ==
    Triple(<<"file", "parent", "data">>,
           {k \in KindSet : is_statement(k)}, "statements")

SectionKeys ==
    { "types", "typedefs", "structs", "unions", "enums", "functions",
      "variables", "statements" } \cup KindSet

\* TABLE_SECTIONS with 'typedefs' pointing back at KIND.TYPEDEF
TABLE_SECTIONS_cyclic ==
    [k \in SectionKeys |->
        CASE k = "types" -> TypesTriple
          [] k = "typedefs" -> Alias(KIND_TYPEDEF)
          [] k \in {"structs", "unions", "enums"} -> Alias("types")
          [] k = "functions" -> FunctionsTriple
          [] k = "variables" -> VariablesTriple
          [] k = "statements" -> StatementsTriple
          [] k = KIND_TYPEDEF -> Alias("typedefs")
          [] k = KIND_STRUCT -> Alias("structs")
          [] k = KIND_UNION -> Alias("unions")
          [] k = KIND_ENUM -> Alias("enums")
          [] k = KIND_FUNCTION -> Alias("functions")
          [] k = KIND_VARIABLE -> Alias("variables")
          [] k = KIND_STATEMENT -> Alias("statements")]

TABLE_SECTIONS ==
    [k \in SectionKeys |->
        CASE k = "types" -> TypesTriple
          [] k \in {"typedefs", "structs", "unions", "enums"} -> Alias("types")
          [] k = "functions" -> FunctionsTriple
          [] k = "variables" -> VariablesTriple
          [] k = "statements" -> StatementsTriple
          [] k = KIND_TYPEDEF -> Alias("typedefs")
          [] k = KIND_STRUCT -> Alias("structs")
          [] k = KIND_UNION -> Alias("unions")
          [] k = KIND_ENUM -> Alias("enums")
          [] k = KIND_FUNCTION -> Alias("functions")
          [] k = KIND_VARIABLE -> Alias("variables")
          [] k = KIND_STATEMENT -> Alias("statements")]

\* item.render_rowdata(columns)[c]: the entity's own text for column c
RenderRowdata(item, c) ==
    CASE c = "kind" -> KindValue(item.kind)
      [] c = "name" -> item.name
      [] c = "file" -> item.filename
      [] c = "parent" -> item.parent
      [] c = "data" -> "-"

\* os.path.relpath(path, root) on the paths of the model; relpath('') raises
RelPath(path, root) ==
    CASE path = "/src/geom.c" /\ root = "/src" -> "geom.c"
      [] path = "/src/geom.h" /\ root = "/src" -> "geom.h"
      [] OTHER -> path

RelPathRaises(path, root) == path = ""

\* one row of _render_table: the joined cells of item
TableRow(item, columns, relroot) ==
    LET row == [i \in 1..Len(columns) |->
                   IF relroot # "" /\ columns[i] = "file"
                   THEN RelPath(RenderRowdata(item, columns[i]), relroot)
                   ELSE RenderRowdata(item, columns[i])]
    IN  TextLine(Join(row, "\t"))

\* whether rendering item's row raises (relpath of an empty file name)
TableRowRaises(item, columns, relroot) ==
    /\ relroot # ""
    /\ \E i \in 1..Len(columns) :
          columns[i] = "file" /\ RelPathRaises(RenderRowdata(item, "file"), relroot)

\* the items of _render_table's loop that are rendered before a row raises
RECURSIVE RowsBeforeRaise(_, _, _)
RowsBeforeRaise(items, columns, relroot) ==
    IF items = <<>> \/ TableRowRaises(Head(items), columns, relroot) THEN <<>>
    ELSE <<Head(items)>> \o RowsBeforeRaise(Tail(items), columns, relroot)

\* _render_table(items, columns, relroot): the lines it yields, and whether it
\* ends by raising
_render_table(items, columns, relroot) ==
    LET div    == "--------------------"
        done   == RowsBeforeRaise(items, columns, relroot)
        raises == Len(done) < Len(items)
        rows   == [i \in 1..Len(done) |-> TableRow(done[i], columns, relroot)]
        total  == Len(done)
    IN  [lines |-> <<TextLine(Join(columns, "\t")), TextLine(div)>> \o rows
                   \o (IF raises THEN <<>>
                       ELSE <<TextLine(div),
                              TextLine("total: " \o ToString(total))>>),
         raises |-> raises]

\* one pass of build_section's while loop over (name, info); info is an alias
WhileStep(name, info) ==
    [name |-> IF name \in KindSet THEN info.to ELSE name,
     raises |-> info.to \notin DOMAIN TABLE_SECTIONS,
     info |-> IF info.to \in DOMAIN TABLE_SECTIONS
              THEN TABLE_SECTIONS[info.to] ELSE info]

\* the whole while loop: the (name, info) it ends with
RECURSIVE Resolve(_, _)
Resolve(name, info) ==
    IF info.tag = "tuple" THEN [name |-> name, info |-> info]
    ELSE Resolve(WhileStep(name, info).name, WhileStep(name, info).info)

\* items = sorted((v for v in groupitems if match_kind(v.kind)), key=sortkey)[::-1]
BuildSectionItems_reversed(info, groupitems) ==
    LET kept == SelectKind(groupitems, info.match_kind)
    IN  Reverse(Sorted(kept, [i \in 1..Len(kept) |-> SortKey(info.sortkey, kept[i])]))

\* items = sorted((v for v in groupitems if match_kind(v.kind)), key=sortkey)
BuildSectionItems(info, groupitems) ==
    LET kept == SelectKind(groupitems, info.match_kind)
    IN  Sorted(kept, [i \in 1..Len(kept) |-> SortKey(info.sortkey, kept[i])])

\* build_section's render(): the lines it yields, and whether it raises
SectionRender(name, items, columns, relroot) ==
    LET t == _render_table(items, columns, relroot)
    IN  [lines |-> <<TextLine(""), TextLine(name \o ":"), TextLine("")>> \o t.lines,
         raises |-> t.raises]

\* build_section(name, groupitems, relroot=relroot) for a name of the table,
\* with render() consumed
build_section(name, groupitems, relroot) ==
    LET r     == Resolve(name, TABLE_SECTIONS[name])
        items == BuildSectionItems(r.info, groupitems)
    IN  [items |-> items,
         render |-> SectionRender(r.name, items, r.info.columns, relroot)]

NoInfo == [tag |-> "none"]

NoRound == [items |-> <<>>, lines |-> <<>>, exc |-> ""]

BsIdle ==
    [pc |-> "idle", arg |-> "", name |-> "", info |-> NoInfo, groupitems |-> <<>>,
     relroot |-> "", items |-> <<>>, lines |-> <<>>, exc |-> "", round |-> 0,
     first |-> NoRound, seen |-> <<>>]

\* the names build_section is called with: every key of the table and one
\* name that is not a key
SectionNames == SectionKeys \cup {"bogus"}

RelRoots == {"", "/src"}

\* line 99: info = TABLE_SECTIONS[name]
BuildSectionEnter(frame, name, groupitems, relroot) ==
    IF name \notin DOMAIN TABLE_SECTIONS
    THEN [frame EXCEPT !.pc = "raised", !.exc = "KeyError", !.arg = name,
                       !.name = name, !.groupitems = groupitems,
                       !.relroot = relroot, !.info = NoInfo, !.seen = <<name>>,
                       !.items = <<>>, !.lines = <<>>]
    ELSE [frame EXCEPT !.pc = "while", !.exc = "", !.arg = name, !.name = name,
                       !.groupitems = groupitems, !.relroot = relroot,
                       !.info = TABLE_SECTIONS[name], !.seen = <<name>>,
                       !.items = <<>>, !.lines = <<>>]

\* a caller calls build_section(name, groupitems, relroot=relroot); seen lists
\* the keys looked up in TABLE_SECTIONS by this call
BuildSectionCall ==
    /\ bs.pc = "idle"
    /\ \E name \in SectionNames, groupitems \in Collections(MaxSectionItems),
          relroot \in RelRoots :
          bs' = BuildSectionEnter([bs EXCEPT !.round = 1], name, groupitems, relroot)
    /\ UNCHANGED <<fs, fo, run>>

\* lines 100-103: one pass of the loop
BuildSectionWhile ==
    /\ bs.pc = "while"
    /\ bs.info.tag # "tuple"
    /\ LET s == WhileStep(bs.name, bs.info)
       IN  bs' = IF s.raises
                 THEN [bs EXCEPT !.pc = "raised", !.exc = "KeyError", !.name = s.name,
                                 !.seen = Append(bs.seen, bs.info.to)]
                 ELSE [bs EXCEPT !.name = s.name, !.info = s.info,
                                 !.seen = Append(bs.seen, bs.info.to)]
    /\ UNCHANGED <<fs, fo, run>>

\* lines 105-114: the loop is left, the items are filtered and sorted, and
\* (items, render) is returned
BuildSectionReturn ==
    /\ bs.pc = "while"
    /\ bs.info.tag = "tuple"
    /\ bs' = [bs EXCEPT !.pc = "returned",
                        !.items = BuildSectionItems(bs.info, bs.groupitems)]
    /\ UNCHANGED <<fs, fo, run>>

\* the caller consumes render()
BuildSectionRender ==
    /\ bs.pc = "returned"
    /\ LET r == SectionRender(bs.name, bs.items, bs.info.columns, bs.relroot)
       IN  bs' = [bs EXCEPT !.pc = "rendered", !.lines = r.lines,
                            !.exc = IF r.raises THEN "ValueError" ELSE ""]
    /\ UNCHANGED <<fs, fo, run>>

\* the caller calls build_section again, with the same name, on the items the
\* first call returned
BuildSectionAgain ==
    /\ bs.pc = "rendered"
    /\ bs.round = 1
    /\ bs' = BuildSectionEnter(
                [bs EXCEPT !.round = 2,
                           !.first = [items |-> bs.items, lines |-> bs.lines,
                                      exc |-> bs.exc]],
                bs.arg, bs.items, bs.relroot)
    /\ UNCHANGED <<fs, fo, run>>

NextSection ==
    \/ BuildSectionCall
    \/ BuildSectionWhile
    \/ BuildSectionReturn
    \/ BuildSectionRender
    \/ BuildSectionAgain

-----------------------------------------------------------------------------
(* the formats                                                             *)

\* item.render(fmt): the entity's own lines, one token here
Render(item, fmt) == <<[render |-> fmt, item |-> item]>>

\* the key of the entities' own order (Analyzed.__lt__), used by sorted(analysis)
NaturalKey(v) == <<KindValue(v.kind), v.filename, v.parent, v.name>>

\* v.key
EntityKey(v) == <<v.filename, v.parent, v.name, KindValue(v.kind)>>

RenderAll(items, fmt) == Concat([i \in 1..Len(items) |-> Render(items[i], fmt)])

fmt_raw(analysis) == RenderAll(analysis, "raw")

\* fmt_brief without the "if kind is KIND.STATEMENT: continue"
fmt_brief_with_statements(analysis) ==
    LET items == Sorted(analysis,
                        [i \in 1..Len(analysis) |-> NaturalKey(analysis[i])])
        group(k) == RenderAll(SelectKind(items, {KINDS[k]}), "brief")
    IN  Concat([k \in 1..Len(KINDS) |-> group(k)])
        \o <<TextLine("  total: " \o ToString(Len(items)))>>

fmt_brief(analysis) ==
    LET items == Sorted(analysis,
                        [i \in 1..Len(analysis) |-> NaturalKey(analysis[i])])
        group(k) == IF KINDS[k] = KIND_STATEMENT THEN <<>>
                    ELSE RenderAll(SelectKind(items, {KINDS[k]}), "brief")
    IN  Concat([k \in 1..Len(KINDS) |-> group(k)])
        \o <<TextLine("  total: " \o ToString(Len(items)))>>

\* the sections fmt_summary yields, in its order (lines 223-226)
SummarySections == <<"types", "functions", "variables", "statements">>

\* total = len(supported) + len(unsupported), as in the line commented out:
\* the entities of the sections counted before 'statements'
SummaryTotal_without_statements(items) ==
    Len(SelectKind(items, KindSet \ {KIND_STATEMENT}))

\* total = len(items)
SummaryTotal(items) == Len(items)

\* fmt_summary's section(name): build_section(name, items), rendered
SummarySection(name, items) == build_section(name, items, "")

SummaryTail(total) ==
    <<TextLine(""), TextLine("grand total: " \o ToString(total))>>

fmt_summary(analysis) ==
    Concat([i \in 1..Len(SummarySections) |->
               SummarySection(SummarySections[i], analysis).render.lines])
    \o SummaryTail(SummaryTotal(analysis))

fmt_full(analysis) ==
    LET items == Sorted(analysis,
                        [i \in 1..Len(analysis) |-> EntityKey(analysis[i])])
    IN  <<TextLine("")>>
        \o Concat([i \in 1..Len(items) |->
                      Render(items[i], "full") \o <<TextLine("")>>])
        \o <<TextLine("total: " \o ToString(Len(items)))>>

FORMATS == {"raw", "brief", "summary", "full"}

\* FORMATS[fmt](analysis), consumed
DoFmt(fmt, analysis) ==
    CASE fmt = "raw" -> fmt_raw(analysis)
      [] fmt = "brief" -> fmt_brief(analysis)
      [] fmt = "summary" -> fmt_summary(analysis)
      [] fmt = "full" -> fmt_full(analysis)

FsIdle ==
    [pc |-> "idle", items |-> <<>>, total |-> 0, next |-> 0, lines |-> <<>>,
     rendered |-> <<>>]

FoIdle == [pc |-> "idle", fmt |-> "", analysis |-> <<>>, lines |-> <<>>]

\* fmt_summary(analysis) is started: lines 216-217
FmtSummaryCall ==
    /\ fs.pc = "idle"
    /\ fo.pc = "idle"
    /\ \E analysis \in Collections(MaxItems) :
          fs' = [fs EXCEPT !.pc = "sections", !.items = analysis,
                           !.total = SummaryTotal(analysis), !.next = 1]
    /\ UNCHANGED <<bs, fo, run>>

\* one of lines 223-226: yield from section(name); rendered keeps the items
\* whose rows the section's table holds
FmtSummarySection ==
    /\ fs.pc = "sections"
    /\ fs.next <= Len(SummarySections)
    /\ LET r == SummarySection(SummarySections[fs.next], fs.items)
       IN  fs' = [fs EXCEPT !.next = fs.next + 1,
                            !.lines = fs.lines \o r.render.lines,
                            !.rendered = Append(fs.rendered, r.items)]
    /\ UNCHANGED <<bs, fo, run>>

\* lines 228-230: the blank line and the grand total
FmtSummaryTail ==
    /\ fs.pc = "sections"
    /\ fs.next > Len(SummarySections)
    /\ fs' = [fs EXCEPT !.pc = "done", !.lines = fs.lines \o SummaryTail(fs.total)]
    /\ UNCHANGED <<bs, fo, run>>

\* fmt_raw, fmt_brief or fmt_full is called and its lines consumed
FormatCall ==
    /\ fo.pc = "idle"
    /\ fs.pc = "idle"
    /\ \E fmt \in {"raw", "brief", "full"}, analysis \in Collections(MaxItems) :
          fo' = [pc |-> "done", fmt |-> fmt, analysis |-> analysis,
                 lines |-> DoFmt(fmt, analysis)]
    /\ UNCHANGED <<bs, fs, run>>

NextFormat ==
    \/ FmtSummaryCall
    \/ FmtSummarySection
    \/ FmtSummaryTail
    \/ FormatCall

-----------------------------------------------------------------------------
(* the checks and the failure handlers                                     *)

None == <<>>

Some(x) == <<x>>

\* the registries handed to cmd_check as _CHECKS: this module's own CHECKS,
\* which is empty, and one that an embedding driver fills; the keys in the
\* dict's order, each naming the check callable CheckOf gives
Registries == { <<>>, <<"globals", "types">> }

CheckOf(name) ==
    CASE name = "globals" -> "check_globals"
      [] name = "types" -> "check_types"

\* what the check callables of the model yield, given the analyzed set: a
\* (data, failure) pair for every variable, or for every entity whose type is
\* unknown; a failure message is the sequence of its tab-separated segments
CheckMatches(check, v) ==
    CASE check = "check_globals" -> v.kind = KIND_VARIABLE
      [] check = "check_types" -> ~v.is_known

CheckMessage(check) ==
    CASE check = "check_globals" -> <<"unsupported type", "details">>
      [] check = "check_types" -> <<"unknown type">>

CheckResults(check, analyzed) ==
    LET Failed(v) == CheckMatches(check, v)
        failed == SelectSeq(analyzed, Failed)
    IN  [i \in 1..Len(failed) |->
            [data |-> Some(failed[i]), failure |-> CheckMessage(check)]]

Sentinel == [data |-> None, failure |-> <<>>]

\* check_all(analyzed, checks, failfast=failfast): everything the generator
\* yields
check_all(analyzed, checks, failfast) ==
    LET all == Concat([i \in 1..Len(checks) |-> CheckResults(checks[i], analyzed)])
    IN  IF failfast /\ all # <<>> THEN <<all[1], Sentinel>> ELSE all

\* analyzed.fix_filenames(relroot)
FixFilenames(analyzed, relroot) ==
    [i \in 1..Len(analyzed) |->
        [analyzed[i] EXCEPT !.filename = RelPath(analyzed[i].filename, relroot)]]

\* the verbosity from which the plain handler logs on two lines (line 153)
VerboseLevel == 3
\* the field widths of the summary handler (line 172)
FileWidth == 35
FuncWidth == 35
NameWidth == 40

RECURSIVE Spaces(_)
Spaces(n) == IF n <= 0 THEN "" ELSE " " \o Spaces(n - 1)

\* f'{s:width}'
Pad(s, width) == s \o Spaces(width - Len(s))

\* str(failure)
FailureText(failure) == Join(failure, "\t")

\* repr(data)
Repr(data) ==
    IF data = None THEN "None"
    ELSE "<" \o KindValue(data[1].kind) \o " " \o data[1].name \o ">"

\* data.shortkey
ShortKey(v) == IF v.parent = "" THEN v.name ELSE v.parent \o "." \o v.name

Out(ch, text) == [ch |-> ch, text |-> text]

HandlerFormats == {"", "raw", "brief", "summary", "full"}

\* _get_check_handlers with the handler looked up when a failure is handled:
\* nothing is raised here
_get_check_handlers_lazy(fmt) ==
    [raises |-> FALSE, exc |-> "", hasdiv |-> fmt \in {"", "full"}, div |-> ""]

\* _get_check_handlers(fmt, printer, verbosity): whether it raises, and div
\* (hasdiv is "div is not None")
_get_check_handlers(fmt) ==
    IF fmt \in HandlerFormats
    THEN [raises |-> FALSE, exc |-> "", hasdiv |-> fmt \in {"", "full"}, div |-> ""]
    ELSE [raises |-> TRUE,
          exc |-> IF fmt \in FORMATS THEN "NotImplementedError" ELSE "ValueError",
          hasdiv |-> FALSE, div |-> ""]

\* handle_failure(failure, data) of the format: what it prints or logs, and
\* whether it raises (an attribute of data is read and data is None)
handle_failure(fmt, verbosity, failure, data) ==
    CASE fmt = "" ->
           [raises |-> FALSE,
            out |-> IF verbosity >= VerboseLevel
                    THEN << Out("logger.info", "failure: " \o FailureText(failure)),
                            Out("logger.info", "data:    " \o Repr(data)) >>
                    ELSE << Out("logger.warn", "failure: " \o FailureText(failure)
                                  \o " (data: " \o Repr(data) \o ")") >>]
      [] fmt = "raw" ->
           [raises |-> FALSE,
            out |-> << Out("print", "'" \o FailureText(failure) \o "' " \o Repr(data)) >>]
      [] fmt \in {"brief", "summary", "full"} /\ data = None ->
           [raises |-> TRUE, out |-> <<>>]
      [] fmt = "brief" /\ data # None ->
           LET v == data[1]
               funcname == v.parent
               name == IF funcname # "" THEN "(" \o funcname \o ")." \o v.name
                       ELSE v.name
           IN  [raises |-> FALSE,
                out |-> << Out("print", v.filename \o ":" \o name \o " - "
                                 \o failure[1]) >>]
      [] fmt = "summary" /\ data # None ->
           LET v == data[1]
               funcname == v.parent
           IN  [raises |-> FALSE,
                out |-> << Out("print",
                               Pad(v.filename, FileWidth) \o "\t"
                               \o Pad(IF funcname # "" THEN funcname ELSE "-", FuncWidth)
                               \o "\t" \o Pad(v.name, NameWidth) \o "\t"
                               \o FailureText(failure)) >>]
      [] fmt = "full" /\ data # None ->
           LET v == data[1]
               name == IF v.kind = KIND_VARIABLE THEN ShortKey(v) ELSE v.name
               funcname == v.parent
               known == IF v.is_known THEN "yes" ELSE "*** NO ***"
           IN  [raises |-> FALSE,
                out |-> << Out("print", KindValue(v.kind) \o " '" \o name
                                 \o "' failed (" \o FailureText(failure) \o ")"),
                           Out("print", "  file:         " \o v.filename),
                           Out("print", "  func:         "
                                 \o (IF funcname # "" THEN funcname ELSE "-")),
                           Out("print", "  name:         " \o v.name),
                           Out("print", "  data:         ..."),
                           Out("print", "  type unknown: " \o known) >>]

-----------------------------------------------------------------------------
(* the commands                                                            *)

\* a str element of checks, and a callable one
CheckName(name) == [isstr |-> TRUE, name |-> name]

CheckCallable(check) == [isstr |-> FALSE, name |-> check]

\* the elements the model puts in a list of checks
CheckElements == {CheckName("globals"), CheckName("bogus"), CheckCallable("check_types")}

\* the checks argument: None, one str, or a list
ChecksArgs ==
    {[form |-> "none", items |-> <<>>]}
    \cup {[form |-> "str", items |-> <<CheckName(n)>>] : n \in {"globals", "bogus"}}
    \cup {[form |-> "list", items |-> l] :
             l \in UNION {[1..k -> CheckElements] : k \in 0..MaxChecks}}

NoChecksArg == [form |-> "none", items |-> <<>>]

Kwargs(filenames, checks, fmt, relroot, failfast, verbosity, datacmd, known, show) ==
    [filenames |-> filenames, checks |-> checks, fmt |-> fmt, relroot |-> relroot,
     failfast |-> failfast, verbosity |-> verbosity, datacmd |-> datacmd,
     known |-> known, show |-> show]

NoKwargs == Kwargs(<<>>, NoChecksArg, "", "", FALSE, 0, "", "", FALSE)

\* the file names a command is given
FilenameLists == UNION {[1..k -> {"/src/geom.c"}] : k \in 0..MaxFiles}

\* the arguments of cmd_check in the command specification ("" is None)
CheckKwargs ==
    {Kwargs(<<"/src/geom.c">>, c, fmt, relroot, failfast, verbosity, "", "", FALSE) :
        c \in ChecksArgs, fmt \in HandlerFormats \cup {"bogus"},
        relroot \in RelRoots, failfast \in BOOLEAN,
        verbosity \in {VerboseLevel - 1, VerboseLevel}}

\* the verbosity cmd_analyze takes when it is given none (line 351), and the
\* one at which it prints a mark per file (line 359)
AnalyzeDefaultVerbosity == 3
MarksVerbosity == 2

\* the arguments of cmd_analyze (verbosity 0 is None)
AnalyzeKwargs ==
    {Kwargs(f, NoChecksArg, fmt, "", FALSE, verbosity, "", "", FALSE) :
        f \in FilenameLists, fmt \in FORMATS \cup {"", "bogus"},
        verbosity \in {0, MarksVerbosity - 1, MarksVerbosity, AnalyzeDefaultVerbosity}}

\* the arguments of cmd_data (known "" is None)
DataKwargs ==
    {Kwargs(<<"/src/geom.c">>, NoChecksArg, "", "", FALSE, 0, datacmd, known, show) :
        datacmd \in {"show", "dump", "check", "bogus"},
        known \in {"", "known.tsv"}, show \in BOOLEAN}

\* the entities of the analyzed sets of the command specification
AnalyzedPool ==
    << Entity(KIND_VARIABLE, "count", "/src/geom.c", "add", TRUE),
       Entity(KIND_VARIABLE, "buf", "/src/geom.c", "", FALSE),
       Entity(KIND_FUNCTION, "add", "/src/geom.c", "", TRUE) >>

\* the most entities of an analyzed set in the command specification
MaxAnalyzed == 2

\* what _analyze (the analyzer, outside this file) may return
Analyses ==
    LET idx == UNION {[1..k -> 1..Len(AnalyzedPool)] : k \in 0..MaxAnalyzed}
        inj == {f \in idx : \A i, j \in DOMAIN f : f[i] = f[j] => i = j}
    IN  {[i \in DOMAIN f |-> AnalyzedPool[f[i]]] : f \in inj}

RunIdle ==
    [pc |-> "idle", via |-> "", cmdname |-> "", cmd |-> "", kwargs |-> NoKwargs,
     registry |-> <<>>, checks |-> <<>>, analyzed |-> <<>>, pos |-> 0, nexts |-> 0,
     numfailed |-> 0, handled |-> <<>>, out |-> <<>>, exc |-> "", status |-> 0,
     analyze_calls |-> 0, fixed |-> FALSE]

\* the frame of a call of handler cmd with kwargs
EnterCmd(frame, via, cmdname, cmd, kwargs, registry) ==
    [frame EXCEPT !.pc = "call", !.via = via, !.cmdname = cmdname, !.cmd = cmd,
                  !.kwargs = kwargs, !.registry = registry]

Raise(frame, exc) == [frame EXCEPT !.pc = "raised", !.exc = exc]

IsKnownCheck(c, registry) ==
    ~c.isstr \/ \E i \in 1..Len(registry) : registry[i] = c.name

\* lines 296-301: the list of check callables, or KeyError
ResolveChecks(checks, registry) ==
    LET items == IF checks.items = <<>>
                 THEN [i \in 1..Len(registry) |-> CheckName(registry[i])]
                 ELSE checks.items
    IN  [raises |-> \E i \in 1..Len(items) : ~IsKnownCheck(items[i], registry),
         checks |-> [i \in 1..Len(items) |->
                        IF items[i].isstr /\ IsKnownCheck(items[i], registry)
                        THEN CheckOf(items[i].name) ELSE items[i].name]]

\* the (data, failure) pairs the generator of line 315 yields, all of them
Stream(frame) == check_all(frame.analyzed, frame.checks, frame.kwargs.failfast)

\* "if data is None" with the test never true
IsSentinel_never(data) == FALSE

\* line 316: if data is None
IsSentinel(data) == data = None

\* numfailed = 1
NextNumfailed_one(numfailed) == 1

\* line 321: numfailed += 1
NextNumfailed(numfailed) == numfailed + 1

\* the width of a process's exit status, in bits: sys.exit(n) ends the
\* process with the low eight bits of n (line 330)
ExitStatusBits == 8

\* the exit status the parent of the process sees after sys.exit(n)
ExitStatus(n) == n % (2 ^ ExitStatusBits)

\* lines 316-322: the body of the loop for one (data, failure)
LoopBody(frame, item) ==
    IF IsSentinel(item.data)
    THEN [frame EXCEPT !.pc = "after",
                       !.out = frame.out
                               \o <<Out("printer.info", "stopping after one failure")>>]
    ELSE LET h == _get_check_handlers(frame.kwargs.fmt)
             d == IF h.hasdiv /\ frame.numfailed > 0
                  THEN <<Out("printer.info", h.div)>> ELSE <<>>
             r == handle_failure(frame.kwargs.fmt, frame.kwargs.verbosity,
                                 item.failure, item.data)
         IN  [frame EXCEPT !.pc = IF r.raises THEN "raised" ELSE "loop",
                           !.exc = IF r.raises THEN "AttributeError" ELSE "",
                           !.numfailed = NextNumfailed(frame.numfailed),
                           !.handled = Append(frame.handled, item),
                           !.out = frame.out \o d \o r.out]

\* an embedding driver calls cmd_check(filenames, **kwargs, _CHECKS=registry)
CallCmdCheck(kwargsSet, registries) ==
    /\ run.pc = "idle"
    /\ \E kwargs \in kwargsSet, registry \in registries :
          run' = EnterCmd(run, "direct", "", "cmd_check", kwargs, registry)
    /\ UNCHANGED <<bs, fs, fo>>

\* lines 296-306: the checks and the format are resolved
CmdCheckSetup ==
    /\ run.pc = "call"
    /\ run.cmd = "cmd_check"
    /\ LET r == ResolveChecks(run.kwargs.checks, run.registry)
           h == _get_check_handlers(run.kwargs.fmt)
       IN  run' = IF r.raises THEN Raise(run, "KeyError")
                  ELSE IF h.raises THEN Raise(run, h.exc)
                  ELSE [run EXCEPT !.pc = "analyze", !.checks = r.checks]
    /\ UNCHANGED <<bs, fs, fo>>

\* lines 308-314: the analyzer runs, the file names are rewritten when relroot
\* is given, and the checking starts
CmdCheckAnalyze(analyses) ==
    /\ run.pc = "analyze"
    /\ run.cmd = "cmd_check"
    /\ \E analyzed \in analyses :
          run' = [run EXCEPT
                     !.pc = "loop",
                     !.analyze_calls = run.analyze_calls + 1,
                     !.fixed = run.kwargs.relroot # "",
                     !.analyzed = IF run.kwargs.relroot # ""
                                  THEN FixFilenames(analyzed, run.kwargs.relroot)
                                  ELSE analyzed,
                     !.numfailed = 0,
                     !.out = run.out \o <<Out("logger.info", "analyzing..."),
                                         Out("logger.info", "checking...")>>]
    /\ UNCHANGED <<bs, fs, fo>>

\* lines 315-322: the loop takes the generator's next pair
CmdCheckLoop ==
    /\ run.pc = "loop"
    /\ run.cmd = "cmd_check"
    /\ run.pos < Len(Stream(run))
    /\ run' = LoopBody([run EXCEPT !.pos = run.pos + 1, !.nexts = run.nexts + 1],
                       Stream(run)[run.pos + 1])
    /\ UNCHANGED <<bs, fs, fo>>

\* lines 323-330: the loop is over, because the generator is exhausted (one
\* more next()) or because of the break
CmdCheckEnd ==
    /\ run.cmd = "cmd_check"
    /\ IF run.pc = "loop" THEN run.pos >= Len(Stream(run)) ELSE run.pc = "after"
    /\ run' = [run EXCEPT
                  !.pc = IF run.numfailed > 0 THEN "exited" ELSE "returned",
                  !.nexts = IF run.pc = "loop" THEN run.nexts + 1 ELSE run.nexts,
                  !.status = IF run.numfailed > 0 THEN ExitStatus(run.numfailed) ELSE 0,
                  !.out = run.out
                          \o << Out("printer.info", "-------------------------"),
                                Out("logger.info", "total failures: "
                                                   \o ToString(run.numfailed)),
                                Out("logger.info", "done checking") >>]
    /\ UNCHANGED <<bs, fs, fo>>

\* an embedding driver calls cmd_analyze(filenames, **kwargs)
CallCmdAnalyze ==
    /\ run.pc = "idle"
    /\ \E kwargs \in AnalyzeKwargs :
          run' = EnterCmd(run, "direct", "", "cmd_analyze", kwargs, <<>>)
    /\ UNCHANGED <<bs, fs, fo>>

\* lines 351-371: the verbosity and the format are resolved
CmdAnalyzeSetup ==
    /\ run.pc = "call"
    /\ run.cmd = "cmd_analyze"
    /\ LET verbosity == IF run.kwargs.verbosity # 0 THEN run.kwargs.verbosity
                        ELSE AnalyzeDefaultVerbosity
       IN  run' = IF run.kwargs.fmt \notin FORMATS THEN Raise(run, "ValueError")
                  ELSE [run EXCEPT !.pc = "analyze", !.kwargs.verbosity = verbosity]
    /\ UNCHANGED <<bs, fs, fo>>

\* a line of a format as the text print() writes
LineText(line) ==
    IF "text" \in DOMAIN line THEN line.text
    ELSE line.render \o " " \o Repr(Some(line.item))

\* what the wrapped file names print while the analyzer reads them
FilenameMarks(filenames, verbosity) ==
    [i \in 1..Len(filenames) |->
        IF verbosity = MarksVerbosity THEN Out("print", ".")
        ELSE Out("print", "<" \o filenames[i] \o ">")]

\* lines 373-377: the analyzer runs and the format's lines are printed
CmdAnalyzeRun(analyses) ==
    /\ run.pc = "analyze"
    /\ run.cmd = "cmd_analyze"
    /\ \E analyzed \in analyses :
          LET lines == DoFmt(run.kwargs.fmt, analyzed)
          IN  run' = [run EXCEPT
                         !.pc = "returned",
                         !.analyze_calls = run.analyze_calls + 1,
                         !.analyzed = analyzed,
                         !.out = run.out
                                 \o <<Out("logger.info", "analyzing...")>>
                                 \o (IF run.kwargs.verbosity >= MarksVerbosity
                                     THEN FilenameMarks(run.kwargs.filenames,
                                                        run.kwargs.verbosity)
                                     ELSE <<>>)
                                 \o [i \in 1..Len(lines) |->
                                        Out("print", LineText(lines[i]))]]
    /\ UNCHANGED <<bs, fs, fo>>

\* an embedding driver calls cmd_data(datacmd, filenames, known, **kwargs)
CallCmdData ==
    /\ run.pc = "idle"
    /\ \E kwargs \in DataKwargs :
          run' = EnterCmd(run, "direct", "", "cmd_data", kwargs, <<>>)
    /\ UNCHANGED <<bs, fs, fo>>

\* lines 411-432: cmd_data's body; get_known and _analyze give a collection
CmdDataRun(analyses) ==
    /\ run.pc = "call"
    /\ run.cmd = "cmd_data"
    /\ \E got \in analyses :
          LET k == run.kwargs
              lines == fmt_summary(got)
          IN  run' =
                CASE k.datacmd = "show" /\ k.known = "" -> Raise(run, "TypeError")
                  [] k.datacmd = "show" /\ k.known # "" ->
                       [run EXCEPT !.pc = "returned",
                                   !.analyzed = got,
                                   !.out = [i \in 1..Len(lines) |->
                                               Out("print", LineText(lines[i]))]]
                  [] k.datacmd = "dump" ->
                       [run EXCEPT !.pc = "returned",
                                   !.analyzed = got,
                                   !.analyze_calls = run.analyze_calls + 1,
                                   !.out = IF k.known = "" \/ k.show
                                           THEN <<Out("print", "outfile.getvalue()")>>
                                           ELSE <<Out("write_known", k.known)>>]
                  [] k.datacmd = "check" -> Raise(run, "NotImplementedError")
                  [] OTHER -> Raise(run, "ValueError")
    /\ UNCHANGED <<bs, fs, fo>>

Handlers == {"cmd_check", "cmd_analyze", "cmd_data"}

\* COMMANDS: name -> (description, [cli], handler)
COMMANDS ==
    [c \in {"check", "analyze", "data"} |->
        CASE c = "check" ->
               << "analyze and fail if the given C source/header files have any problems",
                  <<"_cli_check">>, "cmd_check" >>
          [] c = "analyze" ->
               << "report on the state of the given C source/header files",
                  <<"_cli_analyze">>, "cmd_analyze" >>
          [] c = "data" ->
               << "check/manage local data (e.g. knwon types, ignored vars, caches)",
                  <<"_cli_data">>, "cmd_data" >>]

\* the cmd_kwargs main is given for a command
MainKwargs(cmd) ==
    CASE cmd = "check" -> {k \in CheckKwargs : k.checks.form = "none"}
      [] cmd = "analyze" -> AnalyzeKwargs
      [] cmd = "data" -> DataKwargs
      [] OTHER -> {NoKwargs}

\* main(cmd, cmd_kwargs): COMMANDS[cmd][0] is the tuple's first element
\* (Python counts from 0, a TLA+ sequence from 1); calling an object that is
\* no function raises TypeError
Main ==
    /\ run.pc = "idle"
    /\ \E cmd \in DOMAIN COMMANDS \cup {"bogus"} :
          \E kwargs \in MainKwargs(cmd) :
             LET called == [run EXCEPT !.via = "main", !.cmdname = cmd,
                                       !.kwargs = kwargs]
             IN  run' = IF cmd \notin DOMAIN COMMANDS THEN Raise(called, "ValueError")
                        ELSE LET run_cmd == COMMANDS[cmd][1]
                             IN  IF run_cmd \in Handlers
                                 THEN EnterCmd(run, "main", cmd, run_cmd, kwargs, <<>>)
                                 ELSE Raise(called, "TypeError")
    /\ UNCHANGED <<bs, fs, fo>>

\* the arguments and the analyzed sets of the exit-status specification: one
\* check that fails every variable, on a set of n variables
ExitKwargs ==
    {Kwargs(<<"/src/geom.c">>,
            [form |-> "list", items |-> <<CheckCallable("check_globals")>>],
            "raw", "", FALSE, VerboseLevel, "", "", FALSE)}

ExitAnalyses == {[i \in 1..n |-> AnalyzedPool[1]] : n \in 0..MaxExitFailures}

Next ==
    \/ Main
    \/ CallCmdCheck(CheckKwargs, Registries)
    \/ CmdCheckSetup
    \/ CmdCheckAnalyze(Analyses)
    \/ CmdCheckLoop
    \/ CmdCheckEnd
    \/ CallCmdAnalyze
    \/ CmdAnalyzeSetup
    \/ CmdAnalyzeRun(Analyses)
    \/ CallCmdData
    \/ CmdDataRun(Analyses)

NextExit ==
    \/ CallCmdCheck(ExitKwargs, {<<>>})
    \/ CmdCheckSetup
    \/ CmdCheckAnalyze(ExitAnalyses)
    \/ CmdCheckLoop
    \/ CmdCheckEnd

InitAll ==
    /\ bs = BsIdle
    /\ fs = FsIdle
    /\ fo = FoIdle
    /\ run = RunIdle

\* the commands
Spec == InitAll /\ [][Next]_vars

\* cmd_check on analyzed sets large enough for the exit status to wrap
SpecExit == InitAll /\ [][NextExit]_vars

\* build_section alone
SpecSection == InitAll /\ [][NextSection]_vars

\* the formats alone
SpecFormat == InitAll /\ [][NextFormat]_vars

-----------------------------------------------------------------------------
(* Properties of the section builder and of the formats.                   *)

CanonicalTriples ==
    {TypesTriple, FunctionsTriple, VariablesTriple, StatementsTriple}

\* C6: for every key of TABLE_SECTIONS (section strings and kinds), the
\* alias loop of build_section terminates at one concrete (columns, predicate,
\* sortkey) tuple: no lookup raises KeyError, no key is looked up twice (the
\* alias graph has no cycle, so the loop runs at most once per key), a pass of
\* the loop always finds a key to go on with, and the loop is left with one
\* of the table's tuples.
C6_AliasResolutionTerminates ==
    bs.arg \in SectionKeys
        => /\ bs.exc # "KeyError"
           /\ \A i, j \in 1..Len(bs.seen) : bs.seen[i] = bs.seen[j] => i = j
           /\ Len(bs.seen) <= Cardinality(SectionKeys)
           /\ bs.pc = "while"
                 => \/ bs.info \in CanonicalTriples
                    \/ bs.info.tag = "alias" /\ bs.info.to \in DOMAIN TABLE_SECTIONS
           /\ bs.pc \in {"returned", "rendered"} => bs.info \in CanonicalTriples

\* a kind is resolved through two aliases (KIND.TYPEDEF -> 'typedefs' -> 'types')
C6_Witness ==
    /\ bs.pc = "returned"
    /\ bs.arg = KIND_TYPEDEF
    /\ bs.seen = <<KIND_TYPEDEF, "typedefs", "types">>
    /\ bs.name = "typedefs"
    /\ bs.info = TypesTriple

\* C7: build_section is idempotent: called with the same name on the items it
\* returned, it returns the same items in the same order, and its render()
\* yields the same lines, the "total:" line among them.
C7_BuildSectionIdempotent ==
    /\ (bs.round = 2 /\ bs.pc \in {"returned", "rendered"})
          => bs.items = bs.first.items
    /\ (bs.round = 2 /\ bs.pc = "rendered")
          => /\ bs.lines = bs.first.lines
             /\ bs.exc = bs.first.exc
             /\ bs.exc = ""
                   => Last(bs.lines) = TextLine("total: " \o ToString(Len(bs.first.items)))

\* the second call has returned two items that tie under the section's key
C7_Witness ==
    /\ bs.round = 2
    /\ bs.pc = "rendered"
    /\ bs.exc = ""
    /\ Len(bs.items) = 2
    /\ bs.items[1] # bs.items[2]
    /\ SortKey(bs.info.sortkey, bs.items[1]) = SortKey(bs.info.sortkey, bs.items[2])

\* C5: for a nonempty collection, in whatever order and of whatever kinds, the
\* last line of fmt_summary is 'grand total: <n>', n the number of entities.
C5_SummaryGrandTotal ==
    (fs.pc = "done" /\ fs.items # <<>>)
        => Last(fs.lines) = TextLine("grand total: " \o ToString(Len(fs.items)))

\* a summary of three entities, a statement among them and not in sorted order
C5_Witness ==
    /\ fs.pc = "done"
    /\ Len(fs.items) = 3
    /\ fs.items[1].kind = KIND_STATEMENT
    /\ fs.items[3].kind = KIND_TYPEDEF

\* the values k of the lines 'total: <k>' among lines, added up
RECURSIVE SumOfTotals(_, _)
SumOfTotals(lines, n) ==
    IF lines = <<>> THEN 0
    ELSE LET ks == {k \in 0..n : Head(lines) = TextLine("total: " \o ToString(k))}
         IN  (IF ks = {} THEN 0 ELSE CHOOSE k \in ks : TRUE)
             + SumOfTotals(Tail(lines), n)

RECURSIVE SumOfLens(_)
SumOfLens(ss) == IF ss = <<>> THEN 0 ELSE Len(Head(ss)) + SumOfLens(Tail(ss))

\* C8: every kind satisfies the predicate of exactly one of the sections
\* types, functions, variables, statements; so in the summary every input
\* entity is a row of exactly one section, and the four 'total:' values add
\* up to the grand total.
C8_SummarySectionsPartition ==
    /\ \A kind \in KindSet :
          Cardinality({i \in 1..Len(SummarySections) :
              kind \in TABLE_SECTIONS[SummarySections[i]].match_kind}) = 1
    /\ fs.pc = "done"
          => /\ Len(fs.rendered) = Len(SummarySections)
             /\ \A i \in 1..Len(fs.items) :
                   Cardinality({j \in 1..Len(fs.rendered) :
                       Count(fs.rendered[j], fs.items[i]) = 1}) = 1
             /\ SumOfLens(fs.rendered) = Len(fs.items)
             /\ SumOfTotals(fs.lines, Len(fs.items)) = Len(fs.items)
             /\ Last(fs.lines) = TextLine("grand total: " \o ToString(Len(fs.items)))

\* a summary whose four sections each hold rows or none: a type, a variable
\* and a statement
C8_Witness ==
    /\ fs.pc = "done"
    /\ Len(fs.rendered[1]) = 1
    /\ Len(fs.rendered[2]) = 0
    /\ Len(fs.rendered[3]) = 1
    /\ Len(fs.rendered[4]) = 1

KindIndex(kind) == CHOOSE i \in 1..Len(KINDS) : KINDS[i] = kind

\* C9: fmt_brief renders every entity that is not a statement exactly once and
\* no statement, the kinds in the order typedef, struct, union, enum,
\* function, variable, the entities of one kind in their own sorted order, and
\* yields the total line last.
C9_BriefOrder ==
    (fo.pc = "done" /\ fo.fmt = "brief")
        => LET out == fo.lines
               r   == Front(out)
           IN  /\ out # <<>>
               /\ Last(out) = TextLine("  total: " \o ToString(Len(fo.analysis)))
               /\ \A i \in 1..Len(r) :
                     /\ r[i] \in {[render |-> "brief", item |-> fo.analysis[j]] :
                                     j \in 1..Len(fo.analysis)}
                     /\ r[i].item.kind # KIND_STATEMENT
               /\ \A j \in 1..Len(fo.analysis) :
                     Count(r, [render |-> "brief", item |-> fo.analysis[j]])
                        = IF fo.analysis[j].kind = KIND_STATEMENT THEN 0
                          ELSE Count(fo.analysis, fo.analysis[j])
               /\ \A i, j \in 1..Len(r) :
                     i < j => /\ KindIndex(r[i].item.kind) <= KindIndex(r[j].item.kind)
                              /\ r[i].item.kind = r[j].item.kind
                                    => ~TupleLess(NaturalKey(r[j].item),
                                                  NaturalKey(r[i].item))

\* a brief report of a statement, a variable and a typedef, given in that order
C9_Witness ==
    /\ fo.pc = "done"
    /\ fo.fmt = "brief"
    /\ Len(fo.analysis) = 3
    /\ fo.analysis[1].kind = KIND_STATEMENT
    /\ fo.analysis[2].kind = KIND_VARIABLE
    /\ fo.analysis[3].kind = KIND_TYPEDEF
    /\ Len(fo.lines) = 3

-----------------------------------------------------------------------------
(* Properties of the commands.                                             *)

StopNotice == Out("printer.info", "stopping after one failure")

\* the generator's last pair taken by the loop was the data=None sentinel
SentinelTaken ==
    /\ run.pos >= 1
    /\ run.pos <= Len(Stream(run))
    /\ Stream(run)[run.pos].data = None

\* C1: in cmd_check with failfast, on the runner's stream (at most one
\* failure, then the data=None sentinel): at most one failure reaches
\* handle_failure and it is never the sentinel, the notice 'stopping after one
\* failure' is printed once, when the sentinel is taken, and not otherwise,
\* the loop asks the generator for nothing after the sentinel, and the count
\* of failures does not include the sentinel: it is at most 1.
C1_FailFastStopsAfterOne ==
    (run.cmd = "cmd_check" /\ run.kwargs.failfast)
        => /\ Len(run.handled) <= 1
           /\ \A i \in 1..Len(run.handled) : run.handled[i].data # None
           /\ run.numfailed = Len(run.handled)
           /\ run.numfailed <= 1
           /\ Count(run.out, StopNotice) = IF SentinelTaken THEN 1 ELSE 0
           /\ SentinelTaken => /\ run.pc \in {"after", "exited"}
                               /\ run.nexts = run.pos
                               /\ run.numfailed = 1
           /\ run.pc \in {"exited", "returned"}
                 => /\ run.pos = Len(Stream(run))
                    /\ run.status = run.numfailed

\* a fail-fast run over checks that have two failures to report ends after
\* one failure and the notice
C1_Witness ==
    /\ run.cmd = "cmd_check"
    /\ run.kwargs.failfast
    /\ run.pc = "exited"
    /\ Len(check_all(run.analyzed, run.checks, FALSE)) >= 2
    /\ Len(run.handled) = 1
    /\ Count(run.out, StopNotice) = 1

\* C2: in cmd_check without failfast, whatever the format (plain, raw, brief,
\* summary, full), handle_failure is called once per pair the runner yields,
\* in the order yielded, none of them a sentinel, and 'total failures' is the
\* number of pairs.
C2_EveryFailureHandledInOrder ==
    (run.cmd = "cmd_check" /\ ~run.kwargs.failfast /\ run.pc \in {"loop", "exited", "returned"})
        => /\ run.kwargs.fmt \in {"", "raw", "brief", "summary", "full"}
           /\ run.handled = SubSeq(Stream(run), 1, run.pos)
           /\ run.numfailed = run.pos
           /\ Count(run.out, StopNotice) = 0
           /\ run.pc \in {"exited", "returned"}
                 => /\ run.handled = Stream(run)
                    /\ \A i \in 1..Len(run.handled) : run.handled[i].data # None
                    /\ run.numfailed = Len(Stream(run))
                    /\ Count(run.out,
                             Out("logger.info",
                                 "total failures: " \o ToString(Len(Stream(run))))) = 1

\* a run in the full format that handled three failures, of two checks
C2_Witness ==
    /\ run.cmd = "cmd_check"
    /\ ~run.kwargs.failfast
    /\ run.kwargs.fmt = "full"
    /\ run.pc = "exited"
    /\ Len(run.handled) = 3
    /\ run.handled[1].failure # run.handled[3].failure

\* C3: when cmd_check ends, the process exit status is the number of failures
\* counted, and so not zero, when there was a failure, and zero when there was
\* none.
C3_ExitStatusIsFailureCount ==
    (run.cmd = "cmd_check" /\ run.pc \in {"exited", "returned"})
        => IF run.numfailed > 0
           THEN run.pc = "exited" /\ run.status # 0 /\ run.status = run.numfailed
           ELSE run.pc = "returned" /\ run.status = 0

\* the run names a check that the registry does not hold
UnrecognizedCheck ==
    /\ run.cmd = "cmd_check"
    /\ \E i \in 1..Len(run.kwargs.checks.items) :
          /\ run.kwargs.checks.items[i].isstr
          /\ \A j \in 1..Len(run.registry) :
                run.registry[j] # run.kwargs.checks.items[i].name

\* the run names a format the command does not know
UnrecognizedFormat ==
    \/ run.cmd = "cmd_check"
          /\ run.kwargs.fmt \notin {"", "raw", "brief", "summary", "full"}
    \/ run.cmd = "cmd_analyze"
          /\ run.kwargs.fmt \notin {"raw", "brief", "summary", "full"}

\* C4: an unrecognized check name (cmd_check) or format name (cmd_check,
\* cmd_analyze) makes the command raise as its first step: the analyzer has not
\* been called, no file name rewritten, no check run, no failure handled and
\* no line logged or printed.
C4_ErrorsBeforeAnyEffect ==
    (run.pc \notin {"idle", "call"} /\ (UnrecognizedCheck \/ UnrecognizedFormat))
        => /\ run.pc = "raised"
           /\ run.exc = IF UnrecognizedCheck THEN "KeyError" ELSE "ValueError"
           /\ run.analyze_calls = 0
           /\ ~run.fixed
           /\ run.pos = 0
           /\ run.nexts = 0
           /\ run.handled = <<>>
           /\ run.out = <<>>

\* cmd_check given a relroot, a known check and an unknown format has raised
C4_Witness ==
    /\ run.cmd = "cmd_check"
    /\ run.pc = "raised"
    /\ run.exc = "ValueError"
    /\ run.kwargs.relroot # ""
    /\ run.kwargs.checks.items # <<>>
    /\ run.kwargs.fmt = "bogus"

\* C10: main(cmd, cmd_kwargs) calls the handler registered for cmd (cmd_check,
\* cmd_analyze, cmd_data) with cmd_kwargs, and for a name that is not
\* registered raises ValueError without calling a handler.
C10_MainDispatchesToHandler ==
    run.via = "main"
        => IF run.cmdname \in {"check", "analyze", "data"}
           THEN /\ run.cmd = (CASE run.cmdname = "check" -> "cmd_check"
                                [] run.cmdname = "analyze" -> "cmd_analyze"
                                [] run.cmdname = "data" -> "cmd_data")
                /\ run.exc # "TypeError"
           ELSE /\ run.pc = "raised"
                /\ run.exc = "ValueError"
                /\ run.cmd = ""
====
